---- MODULE Spec2Model ----
(***************************************************************************)
(* rs-ervice: a type-keyed service container.  One registration chain      *)
(*   RSContextBuilder::new().register::<T1>()....register::<Tn>().build()  *)
(* followed by reads of the finalized RSContext.  The repository holds     *)
(* four drafts of the builder; `variant` selects the one that is compiled: *)
(*   "vanilla"   src/src/vanilla_rs_ervice.rs  (blocking, Result)          *)
(*   "tokio"     src/src/tokio_rs_ervice.rs    (cooperative, Result)       *)
(*   "lib_sync"  src/src/lib.rs, cfg(not(feature = "tokio"))               *)
(*   "lib_tokio" src/src/lib.rs, cfg(feature = "tokio")                    *)
(***************************************************************************)
EXTENDS Integers, Sequences, FiniteSets, TLC

\* Number of distinct service types (TypeId values) the caller may use.
MaxTypes == 3
\* Number of service locks that threads started by built hooks may poison.
MaxPoison == 1

\* Number of threads that use a returned context concurrently.
NumCallers == 2

VARIABLES
    variant,            \* which draft of the builder is compiled
    pc,                 \* position of the caller's chain
    pending_services,   \* RSContextBuilder.pending_services (BTreeMap)
    after_build_hooks,  \* RSContextBuilder.after_build_hooks / after_build_async_hooks
    builder,            \* ownership of the builder value: "live" (the caller has it),
                        \* "in_register", "consumed", "dropped"
    cur,                \* the type whose register / built hook is in progress
    cur_inst,           \* the instance constructed by the register in progress
    next_inst,          \* identity of the next instance to be constructed
    service_map,        \* RSContext.service_map
    context,            \* ownership of the context: "none", "building", "returned", "dropped"
    hook_idx,           \* position of build's for loop in after_build_hooks
    arc_strong,         \* strong count of Arc<RSContext> (cooperative build)
    locked,             \* instances whose Mutex is held
    poisoned,           \* instances whose std::sync::Mutex is poisoned
    outcome,            \* what the last operation returned to the caller
    req_log,            \* types for which register was called, in call order
    reg_log,            \* types whose register returned Ok, in order
    created_log,        \* on_service_created invocations, in order
    built_log,          \* on_all_services_built invocations, in order
    constructed,        \* per type: the instances on_register_crate_instance made
    first_inst,         \* per type: the instance its first successful register stored
    creation_failed,    \* types whose creation hook returned Err
    built_failed,       \* the built-hook failure, if any: <<[idx, ty, err]>>
    dup_rejected,       \* the type whose register met an existing entry, if any
    call_results,       \* results of RSContext::call so far: {<<ty, Option<instance>>>}
    last_is_registered, \* the last result of RSContext::is_registered: <<[ty, res]>>
    hook_lock,          \* the lock a running built hook asked for: <<[inst, st]>>
    effects,            \* external writes of the hooks, in order: <<phase, ty>>
    creation_res,       \* what each on_service_created returned, in order
    built_res,          \* what each on_all_services_built returned, in order
    metadata,           \* RSContext.metadata.registered_services
    metadata_read,      \* the last result of RSContext::get_metadata
    category_info,      \* RSContextBuilder.category_info (tokio_rs_ervice.rs)
    category,           \* RSContext.category
    last_set,           \* the tags of the last two set_category calls, oldest first
    callers,            \* the concurrent callers of a returned context
    counter,            \* per instance: the state of the service behind the Mutex
    lifecycle           \* per type: the lifecycle states its service went through

vars == << variant, pc, pending_services, after_build_hooks, builder, cur, cur_inst,
           next_inst, service_map, context, hook_idx, arc_strong, locked, poisoned,
           outcome, req_log, reg_log, created_log, built_log, constructed, first_inst,
           creation_failed, built_failed, dup_rejected, call_results, last_is_registered,
           hook_lock, effects, creation_res, built_res, metadata, metadata_read,
           category_info, category, last_set, callers, counter, lifecycle >>

----------------------------------------------------------------------------
(* Types, variants, values *)

Types == 1..MaxTypes

Variants == {"vanilla", "tokio", "lib_sync", "lib_tokio"}

Blocking(v) == v \in {"vanilla", "lib_sync"}

Cooperative(v) == v \in {"tokio", "lib_tokio"}

\* The drafts whose register returns Result<Self, RsServiceError>.
ReturnsResult(v) == v \in {"vanilla", "tokio"}

\* std::any::type_name::<T>()
TypeNames == << "ServiceA", "ServiceB", "ServiceC", "ServiceD", "ServiceE" >>

type_name(T) == << TypeNames[T] >>

\* Option<X>: None is the empty sequence, Some(x) the one-element sequence.
NoneOpt == << >>

Some(x) == << x >>

\* The messages a caller-supplied hook may fail with: RsServiceError(String).
HookErrors == { << "e1" >>, << "e2" >> }

HookResults == { << "Ok" >> } \cup { << "Err" >> \o e : e \in HookErrors }

IsErr(res) == Head(res) = "Err"

ErrOf(res) == Tail(res)

\* impl fmt::Display for RsServiceError
Display(e) == << "RsService Error: " >> \o e

Range(s) == { s[i] : i \in 1..Len(s) }

IsPrefix(s, t) == Len(s) <= Len(t) /\ \A i \in 1..Len(s) : s[i] = t[i]

\* The instances on_register_crate_instance can have made: one per register call
\* that passed the duplicate check.
Instances == 1..(MaxTypes + 1)

\* Box::new(()): the placeholder category of a new builder.
Unit == "()"

\* The values a caller may pass to set_category.
CategoryTags == {"tag1", "tag2"}

Callers == 1..NumCallers

IdleCaller == [pc |-> "idle", handle |-> NoneOpt, seen |-> NoneOpt]

----------------------------------------------------------------------------
(* BTreeMap<TypeId, ContainerStruct>: a sequence of entries kept sorted by key *)

Keys(m) == { m[i].key : i \in 1..Len(m) }

contains_key(m, k) == \E i \in 1..Len(m) : m[i].key = k

BTreeGet(m, k) ==
    IF contains_key(m, k)
    THEN Some(m[CHOOSE i \in 1..Len(m) : m[i].key = k].val)
    ELSE NoneOpt

BTreeInsert_Clobber(m, k, v) == << [key |-> k, val |-> v] >>

BTreeInsert(m, k, v) ==
    IF contains_key(m, k)
    THEN [i \in 1..Len(m) |-> IF m[i].key = k THEN [key |-> k, val |-> v] ELSE m[i]]
    ELSE SelectSeq(m, LAMBDA e : e.key < k)
         \o << [key |-> k, val |-> v] >>
         \o SelectSeq(m, LAMBDA e : e.key > k)

\* Box::new(Arc<Mutex<T>>) as Box<dyn Any>: the erased value remembers its type.
Container(T, inst) == [ty |-> T, inst |-> inst]

\* downcast_ref::<Arc<Mutex<T>>>()
downcast_ref(boxed, T) == IF boxed.ty = T THEN Some(boxed.inst) ELSE NoneOpt

call_FirstEntry(m, T) == IF Len(m) > 0 THEN Some(m[1].val.inst) ELSE NoneOpt

\* RSContext::call::<T>()
call(m, T) ==
    LET got == BTreeGet(m, T)
    IN  IF got = NoneOpt THEN NoneOpt ELSE downcast_ref(got[1], T)

is_registered_NonEmpty(m, T) == Len(m) > 0

\* RSContext::is_registered::<T>()
is_registered(m, T) == contains_key(m, T)

----------------------------------------------------------------------------
(* Error values *)

\* "Service type {:?} already registered."
DuplicateError(T) == << "Service type " >> \o type_name(T) \o << " already registered." >>

\* "on_service_created hook failed for {}: {}"
CreationError(T, e) ==
    << "on_service_created hook failed for " >> \o type_name(T) \o << ": " >> \o Display(e)

MutexPoisonedError == << "Mutex poisoned" >>

TryUnwrapError == << "Failed to unwrap Arc<RSContext> in build()" >>

\* What build hands to its caller when a built hook returned Err(e).
BuiltError(v, e) ==
    IF v = "lib_tokio"
    THEN << "Async after_build hook failed: " >> \o Display(e)
    ELSE e

NoOutcome == [kind |-> "none", err |-> << >>]

OkBuilder == [kind |-> "builder", err |-> << >>]

OkContext == [kind |-> "context", err |-> << >>]

ErrOutcome(e) == [kind |-> "err", err |-> e]

PanicOutcome == [kind |-> "panic", err |-> << >>]

----------------------------------------------------------------------------
(* The builder *)

EmptyOf(S) == [T \in S |-> NoneOpt]

Init ==
    /\ variant \in Variants
    /\ pc = "chain"
    /\ pending_services = << >>
    /\ after_build_hooks = << >>
    /\ builder = "live"
    /\ cur = NoneOpt
    /\ cur_inst = NoneOpt
    /\ next_inst = 1
    /\ service_map = << >>
    /\ context = "none"
    /\ hook_idx = 1
    /\ arc_strong = 0
    /\ locked = {}
    /\ poisoned = {}
    /\ outcome = NoOutcome
    /\ req_log = << >>
    /\ reg_log = << >>
    /\ created_log = << >>
    /\ built_log = << >>
    /\ constructed = [T \in Types |-> {}]
    /\ first_inst = EmptyOf(Types)
    /\ creation_failed = {}
    /\ built_failed = NoneOpt
    /\ dup_rejected = NoneOpt
    /\ call_results = {}
    /\ last_is_registered = NoneOpt
    /\ hook_lock = NoneOpt
    /\ effects = << >>
    /\ creation_res = << >>
    /\ built_res = << >>
    /\ metadata = << >>
    /\ metadata_read = NoneOpt
    /\ category_info = Unit
    /\ category = Unit
    /\ last_set = NoneOpt
    /\ callers = [c \in Callers |-> IdleCaller]
    /\ counter = [i \in Instances |-> 0]
    /\ lifecycle = [T \in Types |-> << "Unregistered" >>]

AlreadyRegistered_Unchecked(m, T) == FALSE

\* if self.pending_services.contains_key(&type_id)
AlreadyRegistered(m, T) == contains_key(m, T)

HookFailed_Ignored(res) == FALSE

\* if let Err(e) = result_on  /  .map_err(..)?  /  .expect(..)
HookFailed(res) == IsErr(res)

PushHook_Twice(hooks, T) == hooks \o << T, T >>

\* self.after_build_hooks.push(Box::new(move |ctx| ...)): the closure captures T
PushHook(hooks, T) == Append(hooks, T)

MoveMap_DropLast(m) == SubSeq(m, 1, Len(m) - 1)

\* RSContext { service_map: self.pending_services }
MoveMap(m) == m

\* register takes `mut self`: when it returns Err, or unwinds from a panic,
\* the builder it owns is dropped with everything pending in it.
DropBuilder ==
    /\ builder' = "dropped"
    /\ pending_services' = << >>
    /\ after_build_hooks' = << >>

\* An Err (or a panic, in the drafts of lib.rs) out of register.
RegisterFails(e) ==
    /\ DropBuilder
    /\ IF ReturnsResult(variant)
       THEN pc' = "failed" /\ outcome' = ErrOutcome(e)
       ELSE pc' = "panicked" /\ outcome' = PanicOutcome

\* The service of type T goes through the lifecycle states sts.
Advance(lc, T, sts) == [lc EXCEPT ![T] = @ \o sts]

\* Ok(context): every service of the returned context is final.
Finalize(lc, m) ==
    [T \in Types |-> IF contains_key(m, T) THEN Append(lc[T], "Finalized") ELSE lc[T]]

NextInstAfterRejection_Constructed(n) == n + 1

\* return Err(..) of the duplicate check comes before
\* T::on_register_crate_instance(): a rejected call constructs nothing.
NextInstAfterRejection(n) == n

BuilderDuringRegister_Shared(b) == b

\* pub fn register<T>(mut self): the call takes the builder by value and the
\* caller has none until Ok(self) hands it back.
BuilderDuringRegister(b) == "in_register"

\* register::<T>() up to the call of T's creation hook.
Register(T) ==
    /\ builder = "live"
    /\ req_log' = Append(req_log, T)
    /\ IF AlreadyRegistered(pending_services, T)
       THEN /\ dup_rejected' = Some(T)
            /\ RegisterFails(DuplicateError(T))
            /\ next_inst' = NextInstAfterRejection(next_inst)
            /\ constructed' = IF next_inst' = next_inst THEN constructed
                               ELSE [constructed EXCEPT ![T] = @ \cup {next_inst}]
            /\ UNCHANGED << cur, cur_inst, created_log, effects, lifecycle >>
       ELSE /\ cur' = Some(T)
            /\ cur_inst' = Some(next_inst)
            /\ next_inst' = next_inst + 1
            /\ constructed' = [constructed EXCEPT ![T] = @ \cup {next_inst}]
            /\ created_log' = Append(created_log, T)
            /\ effects' = Append(effects, [phase |-> "created", ty |-> T])
            /\ lifecycle' = Advance(lifecycle, T, << "Instantiated" >>)
            /\ pc' = "creating"
            /\ outcome' = NoOutcome
            /\ builder' = BuilderDuringRegister(builder)
            /\ UNCHANGED << dup_rejected, pending_services, after_build_hooks >>
    /\ UNCHANGED << variant, service_map, context, hook_idx, arc_strong, locked, poisoned,
                    reg_log, built_log, first_inst, creation_failed, built_failed,
                    call_results, last_is_registered >>
    /\ UNCHANGED << hook_lock, creation_res, built_res, metadata, metadata_read, category_info,
                    category, last_set, callers, counter >>

\* The rest of register::<T>(), from the return of on_service_created.
RegisterAfterCreationHook(res) ==
    /\ pc = "creating"
    /\ LET T == cur[1]
       IN  /\ creation_failed' = IF IsErr(res) THEN creation_failed \cup {T}
                                 ELSE creation_failed
           /\ IF HookFailed(res)
              THEN /\ RegisterFails(CreationError(T, ErrOf(res)))
                   /\ lifecycle' = Advance(lifecycle, T, << "Failed" >>)
                   /\ UNCHANGED << reg_log, first_inst >>
              ELSE /\ pending_services' =
                         BTreeInsert(pending_services, T, Container(T, cur_inst[1]))
                   /\ after_build_hooks' = PushHook(after_build_hooks, T)
                   /\ lifecycle' = Advance(lifecycle, T, << "CreationHookRun", "Stored" >>)
                   /\ reg_log' = Append(reg_log, T)
                   /\ first_inst' = IF first_inst[T] = NoneOpt
                                    THEN [first_inst EXCEPT ![T] = cur_inst]
                                    ELSE first_inst
                   /\ pc' = "chain"
                   /\ outcome' = OkBuilder
                   /\ builder' = "live"
    /\ creation_res' = Append(creation_res, res)
    /\ cur' = NoneOpt
    /\ cur_inst' = NoneOpt
    /\ UNCHANGED << variant, next_inst, service_map, context, hook_idx, arc_strong, locked,
                    poisoned, req_log, created_log, built_log, constructed, built_failed,
                    dup_rejected, call_results, last_is_registered >>
    /\ UNCHANGED << hook_lock, effects, built_res, metadata, metadata_read, category_info,
                    category, last_set, callers, counter >>

\* category_info and set_category exist in tokio_rs_ervice.rs only.
HasCategory(v) == v = "tokio"

NewCategory_KeepFirst(old, c) == IF old = Unit THEN c ELSE old

\* self.category_info = Box::new(_category)
NewCategory(old, c) == c

\* set_category(tag), in the draft of tokio_rs_ervice.rs.
SetCategory(c) ==
    /\ pc = "chain"
    /\ builder = "live"
    /\ HasCategory(variant)
    /\ category_info' = NewCategory(category_info, c)
    /\ last_set' = IF Len(last_set) < 2 THEN Append(last_set, c) ELSE << last_set[2], c >>
    /\ outcome' = OkBuilder
    /\ UNCHANGED << variant, pc, pending_services, after_build_hooks, builder, cur,
                    cur_inst, next_inst, service_map, context, hook_idx, arc_strong,
                    locked, poisoned, req_log, reg_log, created_log, built_log,
                    constructed, first_inst, creation_failed, built_failed, dup_rejected,
                    call_results, last_is_registered >>
    /\ UNCHANGED << hook_lock, effects, creation_res, built_res, metadata, metadata_read,
                    category, callers, counter,
                    lifecycle >>

----------------------------------------------------------------------------
(* build *)

\* The drafts of lib.rs collect RSContext.metadata in build; the RSContext
\* literal of vanilla_rs_ervice.rs has the service_map alone.
HasMetadata(v) == v \in {"lib_sync", "lib_tokio"}

\* for (type_id, stored_info) in &self.pending_services { metadata_entries.push(..) }
CollectMetadata(m) ==
    [i \in 1..Len(m) |-> [type_name |-> type_name(m[i].val.ty), type_id_repr |-> m[i].key]]

BuilderAfterBuild_Kept(b) == b

\* pub fn build(self): build takes the builder by value.
BuilderAfterBuild(b) == "consumed"

\* The context under construction is dropped: build returns Err or unwinds.
DropContext ==
    /\ context' = "dropped"
    /\ service_map' = << >>

\* build() up to the start of its loop over the hooks: the pending map is moved
\* into the RSContext (wrapped in an Arc in the cooperative drafts).
Build ==
    /\ pc = "chain"
    /\ builder = "live"
    /\ service_map' = MoveMap(pending_services)
    /\ metadata' = IF HasMetadata(variant) THEN CollectMetadata(pending_services) ELSE << >>
    /\ category' = IF HasCategory(variant) THEN category_info ELSE category
    /\ pending_services' = << >>
    /\ builder' = BuilderAfterBuild(builder)
    /\ context' = "building"
    /\ hook_idx' = 1
    /\ arc_strong' = IF Cooperative(variant) THEN 1 ELSE 0
    /\ pc' = "building"
    /\ outcome' = NoOutcome
    /\ UNCHANGED << variant, after_build_hooks, cur, cur_inst, next_inst, locked, poisoned,
                    req_log, reg_log, created_log, built_log, constructed, first_inst,
                    creation_failed, built_failed, dup_rejected, call_results, last_is_registered >>
    /\ UNCHANGED << hook_lock, effects, creation_res, built_res, metadata_read, category_info,
                    last_set, callers, counter,
                    lifecycle >>

LockFree_Always(lk, i) == TRUE

LockFree_Global(lk, i) == lk = {}

\* Mutex<T>: lock() returns the guard only while no other guard is alive.
LockFree(lk, i) == i \notin lk

NextHook_Reversed(hooks, i) == hooks[Len(hooks) + 1 - i]

\* for hook_fn in self.after_build_hooks
NextHook(hooks, i) == hooks[i]

\* One iteration of build's loop, up to the call of on_all_services_built: the
\* closure looks its service up in the context and takes the service's lock.
BuildRunHook ==
    /\ pc = "building"
    /\ hook_idx <= Len(after_build_hooks)
    /\ LET T == NextHook(after_build_hooks, hook_idx)
           h == call(service_map, T)
       IN  IF h = NoneOpt
           THEN IF variant = "vanilla"
                THEN \* if let Some(..) = ctx.call::<T>() { .. }  Ok(())
                     /\ hook_idx' = hook_idx + 1
                     /\ UNCHANGED << pc, outcome, context, service_map, cur, cur_inst,
                                     locked, arc_strong, built_log, effects, lifecycle >>
                ELSE \* .expect("Service not found")
                     /\ pc' = "panicked"
                     /\ outcome' = PanicOutcome
                     /\ DropContext
                     /\ UNCHANGED << hook_idx, cur, cur_inst, locked, arc_strong, built_log,
                                     effects, lifecycle >>
           ELSE IF Blocking(variant) /\ h[1] \in poisoned
           THEN \* lock() returns Err(PoisonError)
                /\ IF variant = "vanilla"
                   THEN pc' = "failed" /\ outcome' = ErrOutcome(MutexPoisonedError)
                   ELSE pc' = "panicked" /\ outcome' = PanicOutcome
                /\ DropContext
                /\ lifecycle' = Advance(lifecycle, T, << "Failed" >>)
                /\ UNCHANGED << hook_idx, cur, cur_inst, locked, arc_strong, built_log, effects >>
           ELSE \* the lock is taken (the caller waits while it is held)
                /\ LockFree(locked, h[1])
                /\ locked' = locked \cup {h[1]}
                /\ arc_strong' = IF Cooperative(variant) THEN arc_strong + 1 ELSE arc_strong
                /\ cur' = Some(T)
                /\ cur_inst' = h
                /\ built_log' = Append(built_log, T)
                /\ effects' = Append(effects, [phase |-> "built", ty |-> T])
                /\ pc' = "in_hook"
                /\ UNCHANGED << hook_idx, outcome, context, service_map, lifecycle >>
    /\ UNCHANGED << variant, pending_services, after_build_hooks, builder, next_inst,
                    poisoned, req_log, reg_log, created_log, constructed, first_inst,
                    creation_failed, built_failed, dup_rejected, call_results, last_is_registered >>
    /\ UNCHANGED << hook_lock, creation_res, built_res, metadata, metadata_read, category_info,
                    category, last_set, callers, counter >>

\* The lock the running built hook holds besides the container's guard.
HookHeld == IF hook_lock # NoneOpt /\ hook_lock[1].st = "held" THEN {hook_lock[1].inst} ELSE {}

\* The running built hook is inside a lock() call that has not returned.
HookWaiting == hook_lock # NoneOpt /\ hook_lock[1].st = "waiting"

\* A running built hook calls context.call::<U>().
HookCallsService(U) ==
    /\ pc = "in_hook"
    /\ ~HookWaiting
    /\ call_results' = call_results \cup { << U, call(service_map, U) >> }
    /\ UNCHANGED << variant, pc, pending_services, after_build_hooks, builder, cur,
                    cur_inst, next_inst, service_map, context, hook_idx, arc_strong,
                    locked, poisoned, outcome, req_log, reg_log, created_log, built_log,
                    constructed, first_inst, creation_failed, built_failed, dup_rejected,
                    last_is_registered >>
    /\ UNCHANGED << hook_lock, effects, creation_res, built_res, metadata, metadata_read,
                    category_info, category, last_set, callers, counter,
                    lifecycle >>

\* A running built hook hands U's handle to a thread that panics while it holds
\* U's std::sync::Mutex: the lock is left poisoned.
HookPoisonsLock(U) ==
    /\ pc = "in_hook"
    /\ ~HookWaiting
    /\ Blocking(variant)
    /\ Cardinality(poisoned) < MaxPoison
    /\ LET h == call(service_map, U)
       IN  /\ h # NoneOpt
           /\ h[1] \notin locked
           /\ h[1] \notin poisoned
           /\ poisoned' = poisoned \cup {h[1]}
    /\ UNCHANGED << variant, pc, pending_services, after_build_hooks, builder, cur,
                    cur_inst, next_inst, service_map, context, hook_idx, arc_strong,
                    locked, outcome, req_log, reg_log, created_log, built_log,
                    constructed, first_inst, creation_failed, built_failed, dup_rejected,
                    call_results, last_is_registered >>
    /\ UNCHANGED << hook_lock, effects, creation_res, built_res, metadata, metadata_read,
                    category_info, category, last_set, callers, counter,
                    lifecycle >>

EffectsAfterFailure_Undone(eff) == SelectSeq(eff, LAMBDA x : x.phase = "created")

\* return Err(e): build runs nothing that undoes what earlier hooks wrote.
EffectsAfterFailure(eff) == eff

\* A running built hook takes U's handle from the context and calls lock() on
\* it; the closure that runs the hook holds the guard of the hook's own service.
HookRequestsLock(U) ==
    /\ pc = "in_hook"
    /\ hook_lock = NoneOpt
    /\ LET h == call(service_map, U)
       IN  /\ h # NoneOpt
           /\ hook_lock' = Some([inst |-> h[1], st |-> "waiting"])
    /\ UNCHANGED << variant, pc, pending_services, after_build_hooks, builder, cur,
                    cur_inst, next_inst, service_map, context, hook_idx, arc_strong,
                    locked, poisoned, outcome, req_log, reg_log, created_log, built_log,
                    constructed, first_inst, creation_failed, built_failed, dup_rejected,
                    call_results, last_is_registered >>
    /\ UNCHANGED << effects, creation_res, built_res, metadata, metadata_read,
                    category_info, category, last_set, callers, counter,
                    lifecycle >>

\* The hook's lock() returns: with the guard, or, for a poisoned
\* std::sync::Mutex, with Err(PoisonError), whose guard the hook drops.
HookAcquiresLock ==
    /\ pc = "in_hook"
    /\ HookWaiting
    /\ LET i == hook_lock[1].inst
       IN  /\ LockFree(locked, i)
           /\ IF Blocking(variant) /\ i \in poisoned
              THEN hook_lock' = NoneOpt /\ UNCHANGED locked
              ELSE /\ hook_lock' = Some([inst |-> i, st |-> "held"])
                   /\ locked' = locked \cup {i}
    /\ UNCHANGED << variant, pc, pending_services, after_build_hooks, builder, cur,
                    cur_inst, next_inst, service_map, context, hook_idx, arc_strong,
                    poisoned, outcome, req_log, reg_log, created_log, built_log,
                    constructed, first_inst, creation_failed, built_failed, dup_rejected,
                    call_results, last_is_registered >>
    /\ UNCHANGED << effects, creation_res, built_res, metadata, metadata_read,
                    category_info, category, last_set, callers, counter,
                    lifecycle >>

\* The hook drops the guard it took.
HookReleasesLock ==
    /\ pc = "in_hook"
    /\ HookHeld # {}
    /\ locked' = locked \ HookHeld
    /\ hook_lock' = NoneOpt
    /\ UNCHANGED << variant, pc, pending_services, after_build_hooks, builder, cur,
                    cur_inst, next_inst, service_map, context, hook_idx, arc_strong,
                    poisoned, outcome, req_log, reg_log, created_log, built_log,
                    constructed, first_inst, creation_failed, built_failed, dup_rejected,
                    call_results, last_is_registered >>
    /\ UNCHANGED << effects, creation_res, built_res, metadata, metadata_read,
                    category_info, category, last_set, callers, counter,
                    lifecycle >>

\* std::sync::Mutex::lock on a mutex the calling thread already holds never
\* returns: it panics or it blocks forever. This is the panic; blocking forever
\* is the state in which HookAcquiresLock stays disabled.
HookRelockPanics ==
    /\ pc = "in_hook"
    /\ Blocking(variant)
    /\ HookWaiting
    /\ hook_lock[1].inst \in locked
    /\ pc' = "panicked"
    /\ outcome' = PanicOutcome
    /\ hook_lock' = NoneOpt
    /\ lifecycle' = Advance(lifecycle, cur[1], << "Failed" >>)
    /\ locked' = {}
    /\ cur' = NoneOpt
    /\ cur_inst' = NoneOpt
    /\ DropContext
    /\ UNCHANGED << variant, pending_services, after_build_hooks, builder, next_inst,
                    hook_idx, arc_strong, poisoned, req_log, reg_log, created_log,
                    built_log, constructed, first_inst, creation_failed, built_failed,
                    dup_rejected, call_results, last_is_registered >>
    /\ UNCHANGED << effects, creation_res, built_res, metadata, metadata_read,
                    category_info, category, last_set, callers, counter >>

ReleaseGuard_Kept(lk, i) == lk

\* The closure's MutexGuard goes out of scope when the hook has returned.
ReleaseGuard(lk, i) == lk \ {i}

ArcAfterHook_Leaked(n) == n

\* The hook's future, which owns a clone of the Arc<RSContext>, is dropped.
ArcAfterHook(n) == n - 1

\* The rest of the iteration, from the return of on_all_services_built: the
\* guard is released and an Err ends build.
BuildAfterHook(res) ==
    /\ pc = "in_hook"
    /\ ~HookWaiting
    /\ locked' = ReleaseGuard(locked, cur_inst[1]) \ HookHeld
    /\ hook_lock' = NoneOpt
    /\ built_res' = Append(built_res, res)
    /\ built_failed' = IF IsErr(res)
                       THEN Some([idx |-> hook_idx, ty |-> cur[1], err |-> ErrOf(res)])
                       ELSE built_failed
    /\ arc_strong' = IF Cooperative(variant) THEN ArcAfterHook(arc_strong) ELSE arc_strong
    /\ cur' = NoneOpt
    /\ cur_inst' = NoneOpt
    /\ IF HookFailed(res)
       THEN /\ outcome' = ErrOutcome(BuiltError(variant, ErrOf(res)))
            /\ pc' = "failed"
            /\ effects' = EffectsAfterFailure(effects)
            /\ lifecycle' = Advance(lifecycle, cur[1], << "Failed" >>)
            /\ DropContext
            /\ UNCHANGED hook_idx
       ELSE /\ hook_idx' = hook_idx + 1
            /\ pc' = "building"
            /\ lifecycle' = Advance(lifecycle, cur[1], << "BuiltHookRun" >>)
            /\ UNCHANGED << outcome, context, service_map, effects >>
    /\ UNCHANGED << variant, pending_services, after_build_hooks, builder, next_inst,
                    poisoned, req_log, reg_log, created_log, built_log, constructed,
                    first_inst, creation_failed, dup_rejected, call_results, last_is_registered >>
    /\ UNCHANGED << creation_res, metadata, metadata_read, category_info, category, last_set,
                    callers, counter >>

\* The end of build(): Ok(context), after Arc::try_unwrap in the cooperative drafts.
BuildReturn ==
    /\ pc = "building"
    /\ hook_idx > Len(after_build_hooks)
    /\ IF Cooperative(variant) /\ arc_strong # 1
       THEN /\ pc' = "failed"
            /\ outcome' = ErrOutcome(TryUnwrapError)
            /\ DropContext
            /\ UNCHANGED lifecycle
       ELSE /\ pc' = "ready"
            /\ outcome' = OkContext
            /\ context' = "returned"
            /\ lifecycle' = Finalize(lifecycle, service_map)
            /\ UNCHANGED service_map
    /\ UNCHANGED << variant, pending_services, after_build_hooks, builder, cur, cur_inst,
                    next_inst, hook_idx, arc_strong, locked, poisoned, req_log, reg_log,
                    created_log, built_log, constructed, first_inst, creation_failed,
                    built_failed, dup_rejected, call_results, last_is_registered >>
    /\ UNCHANGED << hook_lock, effects, creation_res, built_res, metadata, metadata_read,
                    category_info, category, last_set, callers, counter >>

----------------------------------------------------------------------------
(* The finalized context *)

\* context.call::<T>() by the caller that holds the context.
Call(T) ==
    /\ pc = "ready"
    /\ call_results' = call_results \cup { << T, call(service_map, T) >> }
    /\ UNCHANGED << variant, pc, pending_services, after_build_hooks, builder, cur,
                    cur_inst, next_inst, service_map, context, hook_idx, arc_strong,
                    locked, poisoned, outcome, req_log, reg_log, created_log, built_log,
                    constructed, first_inst, creation_failed, built_failed, dup_rejected,
                    last_is_registered >>
    /\ UNCHANGED << hook_lock, effects, creation_res, built_res, metadata, metadata_read,
                    category_info, category, last_set, callers, counter,
                    lifecycle >>

\* context.is_registered::<T>()
IsRegistered(T) ==
    /\ pc = "ready"
    /\ last_is_registered' = Some([ty |-> T, res |-> is_registered(service_map, T)])
    /\ UNCHANGED << variant, pc, pending_services, after_build_hooks, builder, cur,
                    cur_inst, next_inst, service_map, context, hook_idx, arc_strong,
                    locked, poisoned, outcome, req_log, reg_log, created_log, built_log,
                    constructed, first_inst, creation_failed, built_failed, dup_rejected,
                    call_results >>
    /\ UNCHANGED << hook_lock, effects, creation_res, built_res, metadata, metadata_read,
                    category_info, category, last_set, callers, counter,
                    lifecycle >>

\* context.get_metadata(), in the drafts of lib.rs.
GetMetadata ==
    /\ pc = "ready"
    /\ HasMetadata(variant)
    /\ metadata_read' = Some(metadata)
    /\ UNCHANGED << variant, pc, pending_services, after_build_hooks, builder, cur,
                    cur_inst, next_inst, service_map, context, hook_idx, arc_strong,
                    locked, poisoned, outcome, req_log, reg_log, created_log, built_log,
                    constructed, first_inst, creation_failed, built_failed, dup_rejected,
                    call_results, last_is_registered >>
    /\ UNCHANGED << hook_lock, effects, creation_res, built_res, metadata, category_info,
                    category, last_set, callers, counter,
                    lifecycle >>

----------------------------------------------------------------------------
(* Concurrent callers of a returned context: each takes a handle to a service,
   locks it, adds one to the counter the service keeps, and unlocks. *)

\* Caller c clones the Arc<Mutex<T>> handle: context.call::<T>().unwrap()
CallerCall(c, T) ==
    /\ pc = "ready"
    /\ callers[c].pc = "idle"
    /\ LET h == call(service_map, T)
       IN  /\ h # NoneOpt
           /\ callers' = [callers EXCEPT ![c] = [pc |-> "has_handle", handle |-> h,
                                                 seen |-> NoneOpt]]
    /\ UNCHANGED << variant, pc, pending_services, after_build_hooks, builder, cur,
                    cur_inst, next_inst, service_map, context, hook_idx, arc_strong,
                    locked, poisoned, outcome, req_log, reg_log, created_log, built_log,
                    constructed, first_inst, creation_failed, built_failed, dup_rejected,
                    call_results, last_is_registered >>
    /\ UNCHANGED << hook_lock, effects, creation_res, built_res, metadata, metadata_read,
                    category_info, category, last_set, counter,
                    lifecycle >>

\* handle.lock(): the caller gets the guard and reads the counter through it.
CallerLock(c) ==
    /\ callers[c].pc = "has_handle"
    /\ LET i == callers[c].handle[1]
       IN  /\ LockFree(locked, i)
           /\ locked' = locked \cup {i}
           /\ callers' = [callers EXCEPT ![c].pc = "locked", ![c].seen = Some(counter[i])]
    /\ UNCHANGED << variant, pc, pending_services, after_build_hooks, builder, cur,
                    cur_inst, next_inst, service_map, context, hook_idx, arc_strong,
                    poisoned, outcome, req_log, reg_log, created_log, built_log,
                    constructed, first_inst, creation_failed, built_failed, dup_rejected,
                    call_results, last_is_registered >>
    /\ UNCHANGED << hook_lock, effects, creation_res, built_res, metadata, metadata_read,
                    category_info, category, last_set, counter,
                    lifecycle >>

\* The caller writes the incremented value through the guard and drops the guard.
CallerIncrement(c) ==
    /\ callers[c].pc = "locked"
    /\ LET i == callers[c].handle[1]
       IN  /\ counter' = [counter EXCEPT ![i] = callers[c].seen[1] + 1]
           /\ locked' = locked \ {i}
           /\ callers' = [callers EXCEPT ![c].pc = "done"]
    /\ UNCHANGED << variant, pc, pending_services, after_build_hooks, builder, cur,
                    cur_inst, next_inst, service_map, context, hook_idx, arc_strong,
                    poisoned, outcome, req_log, reg_log, created_log, built_log,
                    constructed, first_inst, creation_failed, built_failed, dup_rejected,
                    call_results, last_is_registered >>
    /\ UNCHANGED << hook_lock, effects, creation_res, built_res, metadata, metadata_read,
                    category_info, category, last_set,
                    lifecycle >>

----------------------------------------------------------------------------

Next ==
    \/ \E T \in Types : Register(T)
    \/ \E res \in HookResults : RegisterAfterCreationHook(res)
    \/ \E c \in CategoryTags : SetCategory(c)
    \/ Build
    \/ BuildRunHook
    \/ \E U \in Types : HookCallsService(U)
    \/ \E U \in Types : HookPoisonsLock(U)
    \/ \E U \in Types : HookRequestsLock(U)
    \/ HookAcquiresLock
    \/ HookReleasesLock
    \/ HookRelockPanics
    \/ \E res \in HookResults : BuildAfterHook(res)
    \/ BuildReturn
    \/ \E T \in Types : Call(T)
    \/ \E T \in Types : IsRegistered(T)
    \/ GetMetadata

Spec == Init /\ [][Next]_vars

\* The registration chain and build, followed by concurrent callers.
NextCallers ==
    \/ \E T \in Types : Register(T)
    \/ \E res \in HookResults : RegisterAfterCreationHook(res)
    \/ Build
    \/ BuildRunHook
    \/ \E res \in HookResults : BuildAfterHook(res)
    \/ BuildReturn
    \/ \E c \in Callers, T \in Types : CallerCall(c, T)
    \/ \E c \in Callers : CallerLock(c)
    \/ \E c \in Callers : CallerIncrement(c)

SpecCallers == Init /\ [][NextCallers]_vars

----------------------------------------------------------------------------
(* Properties *)

NoKeyTwice(m) == \A i, j \in 1..Len(m) : m[i].key = m[j].key => i = j

HoldsFirstInstances(m) == \A i \in 1..Len(m) : Some(m[i].val.inst) = first_inst[m[i].key]

\* C1: in every state of the builder and of the context built from it, a type
\* identity has at most one stored entry, and the entry is the instance that
\* the type's first successful register stored: a repeated register::<T>()
\* neither adds a second entry nor overwrites the first.
C1_OneEntryPerType ==
    /\ NoKeyTwice(pending_services)
    /\ NoKeyTwice(service_map)
    /\ HoldsFirstInstances(pending_services)
    /\ HoldsFirstInstances(service_map)

\* A register::<T>() was called with T pending already, and T still has the
\* single instance of its first registration.
C1_Witness ==
    /\ dup_rejected # NoneOpt
    /\ Len(reg_log) >= 2
    /\ constructed[dup_rejected[1]] = { first_inst[dup_rejected[1]][1] }

\* C2: register::<T>() with T already pending returns the DuplicateRegistration
\* error to the caller as a value; it does not panic, and the instance of T's
\* first registration is not replaced (no second instance of T is made).
C2_DuplicateIsReturnedAsError ==
    dup_rejected # NoneOpt =>
        /\ pc = "failed"
        /\ outcome = ErrOutcome(DuplicateError(dup_rejected[1]))
        /\ constructed[dup_rejected[1]] = { first_inst[dup_rejected[1]][1] }

\* C3: built hooks are invoked in the order their services were registered:
\* the invocations seen so far are a prefix of the registration order, and
\* the whole of it when build succeeds.
C3_BuiltHooksInRegistrationOrder ==
    /\ IsPrefix(built_log, reg_log)
    /\ (pc = "ready" => built_log = reg_log)

\* build succeeded over services registered against their TypeId order.
C3_Witness ==
    /\ pc = "ready"
    /\ Len(built_log) >= 2
    /\ built_log[1] > built_log[2]

\* C4: if the k-th built hook returns an error, no later built hook is invoked,
\* build returns that error to the caller unchanged, and the caller receives
\* no context.
C4_BuiltHookErrorReturnedUnchanged ==
    built_failed # NoneOpt =>
        /\ pc = "failed"
        /\ outcome = ErrOutcome(built_failed[1].err)
        /\ built_log = SubSeq(reg_log, 1, built_failed[1].idx)
        /\ context = "dropped"

\* C5: a type whose creation hook returned an error is not stored, has no
\* built-hook closure enqueued, and its built hook is never run.
C5_FailedCreationNeverStored ==
    \A T \in creation_failed :
        /\ ~contains_key(pending_services, T)
        /\ ~contains_key(service_map, T)
        /\ T \notin Range(after_build_hooks)
        /\ T \notin Range(reg_log)
        /\ T \notin Range(built_log)

\* A creation hook failed, the second one of its chain.
C5_Witness ==
    /\ creation_failed # {}
    /\ Len(created_log) = 2
    /\ created_log[2] \in creation_failed

\* C6 as stated: after register::<T>() fails on T's creation hook, the services
\* registered earlier remain pending in the builder with their closures enqueued.
C6_EarlierServicesRemainPending ==
    creation_failed # {} =>
        /\ Keys(pending_services) = Range(reg_log)
        /\ after_build_hooks = reg_log

\* C6, amended: the failing register::<T>() removes or changes none of the
\* earlier registrations itself (while T's creation hook runs, and so when it
\* fails, every earlier service is pending with its first instance and its
\* closure enqueued, in order), but the call owns the builder and drops it
\* with the error: afterwards no builder holds them.
C6_EarlierPendingUntilBuilderDropped ==
    /\ pc = "creating" =>
          /\ Keys(pending_services) = Range(reg_log)
          /\ HoldsFirstInstances(pending_services)
          /\ after_build_hooks = reg_log
          /\ builder = "in_register"
    /\ creation_failed # {} =>
          /\ builder = "dropped"
          /\ pending_services = << >>
          /\ after_build_hooks = << >>

\* A creation hook failed after two services had been registered.
C6_Witness ==
    /\ creation_failed # {}
    /\ Len(reg_log) = 2
    /\ builder = "dropped"

\* C7: a creation-hook failure inside register::<T>() is returned to the caller
\* as an explicit error value naming the hook and the type; it does not panic.
C7_CreationFailureIsReturnedAsError ==
    creation_failed # {} =>
        /\ pc = "failed"
        /\ \E T \in creation_failed, e \in HookErrors :
               outcome = ErrOutcome(CreationError(T, e))

\* Every hook of the chain succeeded: each one invoked has returned, none
\* returned Err and none left a service lock poisoned.
AllHooksSucceeded ==
    /\ creation_failed = {}
    /\ built_failed = NoneOpt
    /\ poisoned = {}
    /\ Len(built_res) = Len(built_log)

BuildReturned == context # "none" /\ pc \in {"ready", "failed", "panicked"}

C9_CallReturnsStoredInstance ==
    /\ \A r \in call_results :
          r[2] = (IF r[1] \in Range(reg_log) THEN first_inst[r[1]] ELSE NoneOpt)
    /\ \A r1, r2 \in call_results : r1[1] = r2[1] => r1[2] = r2[2]
    /\ context = "returned" => (pc = "ready" /\ outcome = OkContext)

\* The caller got a handle for one type and None for another.
C9_Witness ==
    /\ pc = "ready"
    /\ \E r1, r2 \in call_results : r1[2] # NoneOpt /\ r2[2] = NoneOpt

\* C10: while a built hook runs, every service registered in the chain is
\* retrievable through call on the context the hook was given, whether it was
\* registered before or after the hook's own service.
C10_AllServicesVisibleToBuiltHook ==
    pc = "in_hook" =>
        \A T \in Range(reg_log) :
            call(service_map, T) # NoneOpt /\ call(service_map, T) = first_inst[T]

\* The built hook of the first service retrieved the last registered one.
C10_Witness ==
    /\ pc = "in_hook"
    /\ Len(reg_log) >= 2
    /\ cur = Some(reg_log[1])
    /\ << reg_log[Len(reg_log)], first_inst[reg_log[Len(reg_log)]] >> \in call_results

----------------------------------------------------------------------------
(* C11: a built hook of T that takes T's handle from the context and locks it
   gets the lock, so that the hook can complete and build can return: whenever
   the running hook waits for the lock of its own service, the lock can be
   acquired. *)
HookWaitsOwnLock ==
    /\ pc = "in_hook"
    /\ HookWaiting
    /\ Some(hook_lock[1].inst) = cur_inst

C11_HookMayLockItsOwnService ==
    HookWaitsOwnLock => ENABLED HookAcquiresLock

----------------------------------------------------------------------------
(* C12: each registered service's built hook is invoked at most once, and
   exactly once in a build that returns a context; no built hook is invoked
   before build has consumed the builder and moved the pending map into the
   context. *)
NoDuplicates(s) == \A i, j \in 1..Len(s) : s[i] = s[j] => i = j

C12_BuiltHookOnceAfterFreeze ==
    /\ NoDuplicates(built_log)
    /\ Range(built_log) \subseteq Range(reg_log)
    /\ pc = "ready" => Range(built_log) = Range(reg_log)
    /\ pc \in {"chain", "creating"} => built_log = << >>
    /\ built_log # << >> => /\ builder = "consumed"
                            /\ context # "none"
                            /\ pending_services = << >>
    /\ pc = "in_hook" => /\ context = "building"
                         /\ Keys(service_map) = Range(reg_log)

C12_Witness ==
    /\ pc = "ready"
    /\ Len(reg_log) >= 2
    /\ Len(built_log) = Len(reg_log)

----------------------------------------------------------------------------
(* C13: every register<T> call that passes the duplicate check invokes T's
   creation hook exactly once, on the instance just constructed and before T
   is stored: while the hook runs T is not pending, the pending types are
   exactly the types registered earlier in the chain, and no later one. *)
C13_CreationHookOnceBeforeStore ==
    /\ Len(created_log) = next_inst - 1
    /\ Len(created_log) = Len(req_log) - (IF dup_rejected = NoneOpt THEN 0 ELSE 1)
    /\ pc = "creating" =>
          /\ cur # NoneOpt /\ cur_inst # NoneOpt
          /\ cur_inst[1] \in constructed[cur[1]]
          /\ created_log[Len(created_log)] = cur[1]
          /\ ~contains_key(pending_services, cur[1])
          /\ Keys(pending_services) = Range(reg_log)
          /\ reg_log = SubSeq(created_log, 1, Len(created_log) - 1)

C13_Witness ==
    /\ pc = "creating"
    /\ Len(reg_log) >= 1
    /\ Keys(pending_services) = Range(reg_log)

----------------------------------------------------------------------------
(* C14: build returns a context to the caller only after every enqueued built
   hook has run to completion and succeeded: never while a hook is pending or
   running, never after a hook has failed. *)
C14_ContextOnlyAfterAllHooksSucceeded ==
    context = "returned" =>
        /\ pc = "ready"
        /\ outcome = OkContext
        /\ cur = NoneOpt /\ hook_lock = NoneOpt
        /\ hook_idx = Len(after_build_hooks) + 1
        /\ built_log = after_build_hooks
        /\ Len(built_res) = Len(after_build_hooks)
        /\ \A i \in 1..Len(built_res) : ~IsErr(built_res[i])
        /\ built_failed = NoneOpt

C14_Witness ==
    /\ context = "returned"
    /\ Len(after_build_hooks) >= 2
    /\ Len(built_res) = Len(after_build_hooks)

----------------------------------------------------------------------------
(* C15: once build has produced a context, no later step changes the set of
   types registered in it (the context may only be dropped as a whole), and
   build has consumed the builder: no register can be applied any more. *)
ContextExists == context \in {"building", "returned"}

C15_MembershipFixedOnceBuilt ==
    [][ContextExists =>
         /\ builder = "consumed"
         /\ \A T \in Types : ~ENABLED Register(T)
         /\ Keys(service_map) = Range(reg_log)
         /\ context' = "dropped" \/ Keys(service_map') = Keys(service_map)]_vars

C15_Witness ==
    /\ context = "returned"
    /\ Len(service_map) >= 2
    /\ call_results # {}
    /\ last_is_registered # NoneOpt
    /\ metadata_read # NoneOpt

----------------------------------------------------------------------------
(* C16: the metadata of a built context lists one (type_name, identity_repr)
   entry per registered service, in registration order. *)
MetadataNames == [i \in 1..Len(metadata) |-> metadata[i].type_name]

RegisteredNames == [i \in 1..Len(reg_log) |-> type_name(reg_log[i])]

C16_MetadataInRegistrationOrder ==
    (ContextExists /\ HasMetadata(variant)) => MetadataNames = RegisteredNames

----------------------------------------------------------------------------
(* C17: callers that each take a handle to the same service of a finalized
   context and increment its counter once under the service's lock lose no
   update: the counter of every service equals the number of callers that
   completed on it, in every interleaving. *)
DoneOn(i) == { c \in Callers : callers[c].pc = "done" /\ callers[c].handle = Some(i) }

HoldersOf(i) == { c \in Callers : callers[c].pc = "locked" /\ callers[c].handle = Some(i) }

C17_NoLostUpdate ==
    \A i \in Instances :
        /\ counter[i] = Cardinality(DoneOn(i))
        /\ Cardinality(HoldersOf(i)) <= 1
        /\ HoldersOf(i) # {} => i \in locked

C17_Witness ==
    \E i \in Instances :
        /\ DoneOn(i) = Callers
        /\ counter[i] = NumCallers
        /\ Len(service_map) >= 2

----------------------------------------------------------------------------
(* C18: when the k-th built hook fails during build, what the creation hooks
   and the built hooks 1..k-1 have done stays done: the record of the hooks'
   effects after the failure is the record of every hook invoked so far. *)
EffectsOf(log, phase) == [i \in 1..Len(log) |-> [phase |-> phase, ty |-> log[i]]]

C18_NoUndoAfterBuiltHookFailure ==
    built_failed # NoneOpt =>
        /\ pc = "failed"
        /\ context = "dropped"
        /\ Len(built_log) = built_failed[1].idx
        /\ effects = EffectsOf(created_log, "created") \o EffectsOf(built_log, "built")

C18_Witness ==
    /\ pc = "failed"
    /\ built_failed # NoneOpt
    /\ built_failed[1].idx >= 2
    /\ Len(effects) = Len(created_log) + built_failed[1].idx

----------------------------------------------------------------------------
(* C19: set_category always succeeds: it can be applied to every live builder
   of the chain and hands the builder back; and a context carries one category
   value, the one of the last set_category call made before build (the
   placeholder when there was none). *)
LastCategorySet == IF last_set = << >> THEN Unit ELSE last_set[Len(last_set)]

C19_LastCategoryWins ==
    [][/\ (pc = "chain" /\ builder = "live" /\ HasCategory(variant)) =>
            \A c \in CategoryTags : ENABLED SetCategory(c)
       /\ (\E c \in CategoryTags : SetCategory(c)) =>
            (outcome' = OkBuilder /\ builder' = "live" /\ pc' = "chain")
       /\ HasCategory(variant) => category_info' = LastCategorySet'
       /\ (HasCategory(variant) /\ ContextExists') => category' = LastCategorySet']_vars

C19_Witness ==
    /\ context = "returned"
    /\ Len(last_set) = 2
    /\ last_set[1] # last_set[2]
    /\ category = last_set[2]
    /\ Len(service_map) >= 1

----------------------------------------------------------------------------
(* C20: the blocking draft (vanilla_rs_ervice.rs) and the cooperative draft
   (tokio_rs_ervice.rs) are observationally equivalent. What a chain may show
   is stated once, as a function of its inputs alone (the register calls, what
   each invoked hook returned, whether build was called), with no reference to
   the draft; the two drafts are equivalent when both show exactly that
   whenever the caller has control: the same success or failure at the same
   step, the same stored types, the same hooks invoked in the same order. *)
Front(sq) == SubSeq(sq, 1, Len(sq) - 1)

LastOf(sq) == sq[Len(sq)]

\* Every register before the last one returned Ok: the last one is a duplicate
\* exactly when its type occurs earlier in the chain.
ExpectedDuplicate == req_log # << >> /\ LastOf(req_log) \in Range(Front(req_log))

ExpectedCreated == IF ExpectedDuplicate THEN Front(req_log) ELSE req_log

ExpectedCreationFailed ==
    /\ creation_res # << >>
    /\ Len(creation_res) = Len(ExpectedCreated)
    /\ IsErr(LastOf(creation_res))

ExpectedRegistered ==
    IF ExpectedCreationFailed THEN Front(ExpectedCreated)
    ELSE SubSeq(ExpectedCreated, 1, Len(creation_res))

BuildCalled == builder = "consumed"

ExpectedBuiltFailed == built_res # << >> /\ IsErr(LastOf(built_res))

ExpectedBuilt == SubSeq(ExpectedRegistered, 1, Len(built_res))

ExpectedOutcome ==
    IF ExpectedDuplicate THEN ErrOutcome(DuplicateError(LastOf(req_log)))
    ELSE IF ExpectedCreationFailed
    THEN ErrOutcome(CreationError(LastOf(ExpectedCreated), ErrOf(LastOf(creation_res))))
    ELSE IF ~BuildCalled THEN (IF outcome = NoOutcome THEN NoOutcome ELSE OkBuilder)
    ELSE IF ExpectedBuiltFailed THEN ErrOutcome(ErrOf(LastOf(built_res)))
    ELSE OkContext

CallerHasControl == pc \in {"chain", "ready", "failed", "panicked"}

C20_BlockingAndCooperativeAgree ==
    (variant \in {"vanilla", "tokio"} /\ CallerHasControl) =>
        /\ outcome = ExpectedOutcome
        /\ created_log = ExpectedCreated
        /\ reg_log = ExpectedRegistered
        /\ built_log = ExpectedBuilt
        /\ builder = "live" => Keys(pending_services) = Range(ExpectedRegistered)
        /\ outcome = OkContext => /\ Keys(service_map) = Range(ExpectedRegistered)
                                  /\ built_log = ExpectedRegistered

----------------------------------------------------------------------------
(* C21: every service goes through Unregistered, Instantiated,
   CreationHookRun, Stored, BuiltHookRun, Finalized in that order, skipping and
   revisiting none; Failed is terminal and entered only from Instantiated or
   from Stored. *)
LifecycleOrder ==
    << "Unregistered", "Instantiated", "CreationHookRun", "Stored", "BuiltHookRun",
       "Finalized" >>

FollowsLifecycle(trail) ==
    \/ IsPrefix(trail, LifecycleOrder)
    \/ /\ LastOf(trail) = "Failed"
       /\ IsPrefix(Front(trail), LifecycleOrder)
       /\ LastOf(Front(trail)) \in {"Instantiated", "Stored"}

C21_ServiceLifecycle ==
    \A T \in Types :
        /\ Len(lifecycle[T]) >= 1
        /\ FollowsLifecycle(lifecycle[T])
        /\ T \in creation_failed => LastOf(lifecycle[T]) = "Failed"
        /\ (built_failed # NoneOpt /\ built_failed[1].ty = T) => LastOf(lifecycle[T]) = "Failed"
        /\ (pc = "ready" /\ T \in Range(reg_log)) => lifecycle[T] = LifecycleOrder

(* One service failed from Stored, at build, after another had run its built
   hook. *)
C21_Witness ==
    \E T, U \in Types :
        /\ lifecycle[T] = << "Unregistered", "Instantiated", "CreationHookRun", "Stored",
                             "Failed" >>
        /\ LastOf(lifecycle[U]) = "BuiltHookRun"

----------------------------------------------------------------------------
(* C22: registrations on one builder are strictly sequential. A register can
   start only while the caller has the builder, which it has from new or from
   the Ok of the previous call; while a registration is in flight (in the
   cooperative drafts: suspended between the duplicate check and the insert)
   no other can start, so at most one is in flight. *)
RegistrationsInFlight == Len(created_log) - Len(creation_res)

RegisterCanStart == \E T \in Types : ENABLED Register(T)

C22_RegistrationsAreSequential ==
    /\ RegistrationsInFlight \in {0, 1}
    /\ RegistrationsInFlight = 1 <=> pc = "creating"
    /\ pc = "creating" => builder = "in_register"
    /\ RegisterCanStart =>
          /\ RegistrationsInFlight = 0
          /\ builder = "live"
          /\ outcome \in {NoOutcome, OkBuilder}

C22_Witness ==
    /\ Cooperative(variant)
    /\ pc = "creating"
    /\ RegistrationsInFlight = 1
    /\ Len(reg_log) >= 1
    /\ ~RegisterCanStart

----------------------------------------------------------------------------
(* C23: a finalized context has no global lock. Whatever locks other callers
   hold, a caller can take a handle to any registered service, and can lock a
   service whose own lock is free; call and is_registered can be applied
   whatever is locked, and leave every lock as it is. *)
OtherLockHeld(d) ==
    \E c \in Callers \ {d} : callers[c].pc = "locked" /\ callers[c].handle # callers[d].handle

C23_NoGlobalLock ==
    /\ \A d \in Callers :
          /\ (pc = "ready" /\ callers[d].pc = "idle") =>
                \A T \in Keys(service_map) : ENABLED CallerCall(d, T)
          /\ (callers[d].pc = "has_handle" /\ callers[d].handle[1] \notin locked) =>
                ENABLED CallerLock(d)
    /\ pc = "ready" =>
          \A T \in Types :
              /\ ENABLED (Call(T) /\ locked' = locked)
              /\ ~ENABLED (Call(T) /\ locked' # locked)
              /\ ENABLED (IsRegistered(T) /\ locked' = locked)
              /\ ~ENABLED (IsRegistered(T) /\ locked' # locked)
              /\ \A d \in Callers : ~ENABLED (CallerCall(d, T) /\ locked' # locked)

(* Two callers hold the locks of two different services at the same moment. *)
C23_Witness ==
    \E c, d \in Callers :
        /\ callers[c].pc = "locked"
        /\ callers[d].pc = "locked"
        /\ callers[c].handle # callers[d].handle
        /\ OtherLockHeld(d)

----------------------------------------------------------------------------
(* C24: in the blocking drafts, when build reaches the built hook of a service
   whose lock is poisoned, build returns the lock-poisoned error as a value:
   that hook and the hooks after it are not run, and nothing panics. *)
\* Build stopped at a stored service before its built hook was invoked.
StoppedAtPoisonedLock(T) ==
    /\ Blocking(variant)
    /\ T \in Range(reg_log)
    /\ T \notin Range(built_log)
    /\ LastOf(lifecycle[T]) = "Failed"

C24_PoisonedLockIsReturnedAsError ==
    \A T \in Types :
        StoppedAtPoisonedLock(T) =>
            /\ pc = "failed"
            /\ outcome = ErrOutcome(MutexPoisonedError)
            /\ after_build_hooks[hook_idx] = T
            /\ built_log = SubSeq(after_build_hooks, 1, hook_idx - 1)

----------------------------------------------------------------------------
(* C25: the duplicate check precedes construction. A register<T> rejected as
   a duplicate invokes neither T's construction nor T's creation hook, so each
   type is constructed once per register call that is not a duplicate, and no
   more. *)
Count(sq, x) == Cardinality({ i \in 1..Len(sq) : sq[i] = x })

Rejected(T) == IF dup_rejected = Some(T) THEN 1 ELSE 0

C25_DuplicateCheckPrecedesConstruction ==
    \A T \in Types :
        /\ Cardinality(constructed[T]) = Count(req_log, T) - Rejected(T)
        /\ Count(created_log, T) = Count(req_log, T) - Rejected(T)
        /\ Cardinality(constructed[T]) <= 1
        /\ dup_rejected = Some(T) => constructed[T] = {first_inst[T][1]}

C25_Witness ==
    \E T \in Types :
        /\ dup_rejected = Some(T)
        /\ Count(req_log, T) = 2
        /\ Cardinality(constructed[T]) = 1
        /\ Len(req_log) >= 3

----------------------------------------------------------------------------
(* C26: while there is a builder, its queue of built-hook closures holds
   exactly one closure per pending service, in registration order; so during
   build every closure finds its own service in the context, and the path for
   a service that is not found (skipped silently in the blocking draft, a
   panic in the others) is never taken. *)
C26_OneClosurePerPendingService ==
    /\ builder \in {"live", "in_register"} =>
          /\ after_build_hooks = reg_log
          /\ NoDuplicates(after_build_hooks)
          /\ Range(after_build_hooks) = Keys(pending_services)
          /\ Len(after_build_hooks) = Len(pending_services)
    /\ ContextExists =>
          /\ Range(after_build_hooks) = Keys(service_map)
          /\ \A i \in 1..Len(after_build_hooks) :
                 call(service_map, NextHook(after_build_hooks, i)) # NoneOpt
    /\ pc = "building" => built_log = SubSeq(after_build_hooks, 1, hook_idx - 1)
    /\ pc = "in_hook" => built_log = SubSeq(after_build_hooks, 1, hook_idx)

(* The second closure of a chain registered against the order of the map's
   keys has found its service. *)
C26_Witness ==
    /\ pc = "in_hook"
    /\ hook_idx = 2
    /\ after_build_hooks[1] > after_build_hooks[2]
    /\ cur = Some(after_build_hooks[2])
    /\ cur_inst = call(service_map, after_build_hooks[2])

----------------------------------------------------------------------------
(* C27: during build the container itself holds at most one service lock, the
   one of the service whose built hook is running, and none between two hooks;
   when build has returned, with a context or with an error, it holds none. *)
CallerHeld == { callers[c].handle[1] : c \in { d \in Callers : callers[d].pc = "locked" } }

\* The locks that neither a hook nor a caller of the context took.
ContainerLocks == locked \ (HookHeld \cup CallerHeld)

C27_ContainerHoldsOnlyRunningHooksLock ==
    /\ Cardinality(ContainerLocks) <= 1
    /\ pc = "in_hook" => /\ ContainerLocks = {cur_inst[1]}
                         /\ cur_inst = call(service_map, cur[1])
    /\ pc # "in_hook" => ContainerLocks = {}
    /\ pc \in {"ready", "failed", "panicked"} => locked \ CallerHeld = {}

(* Build failed at its second hook: the guards of both hooks are released. *)
C27_Witness ==
    /\ pc = "failed"
    /\ built_failed # NoneOpt
    /\ built_failed[1].idx = 2
    /\ Len(built_log) = 2
    /\ locked = {}

----------------------------------------------------------------------------
(* C28: in the cooperative drafts the context is uniquely owned again when the
   hook loop ends, so Arc::try_unwrap succeeds: build never returns "Failed to
   unwrap Arc<RSContext> in build()", and when every built hook has returned
   Ok it returns the context. *)
C28_TryUnwrapNeverFails ==
    Cooperative(variant) =>
        /\ outcome # ErrOutcome(TryUnwrapError)
        /\ pc = "building" => arc_strong = 1
        /\ pc = "in_hook" => arc_strong = 2
        /\ pc = "ready" => arc_strong = 1
        /\ (BuildCalled /\ CallerHasControl /\ Len(built_res) = Len(after_build_hooks)
              /\ \A i \in 1..Len(built_res) : ~IsErr(built_res[i])) =>
                 (pc = "ready" /\ outcome = OkContext /\ context = "returned")

C28_Witness ==
    /\ Cooperative(variant)
    /\ pc = "ready"
    /\ outcome = OkContext
    /\ Len(built_res) >= 2
    /\ arc_strong = 1

====
